---- MODULE Spec2Model ----
(***************************************************************************)
(* Model of mushroom_rl/core/serialization.py: the Serializable protocol.  *)
(*                                                                         *)
(* An object is a record [k, type, attrs]; attrs maps every attribute name *)
(* to its value, Unset standing for a name absent from the instance.       *)
(* _save_attributes is an ordinary attribute holding the ordered dict      *)
(* att -> method.  A method string is a sequence of tokens, e.g.           *)
(* <<"json">> or <<"json", "!">>, so that method[-1] and method[:-1] are   *)
(* computed, not assumed.  A zip archive is the sequence of the entries    *)
(* written to it, in write order.                                          *)
(***************************************************************************)
EXTENDS Naturals, Sequences, FiniteSets, TLC

VARIABLES
    x,           \* the object being built and then saved
    pc,          \* "build", "saved", "loaded", "resaved"
    full_save,   \* the full_save flag given to save
    file1,       \* the file at the path x is saved to
    tampered,    \* an entry of file1 was deleted after the save
    save_err,    \* the exception save(x) raised, NoErr if none
    loaded,      \* what load(file1) produced: object or exception, and the event log
    file2,       \* the file at the path the loaded object is saved to
    resave_err   \* the exception of that second save

vars == <<x, pc, full_save, file1, tampered, save_err, loaded, file2, resave_err>>

\* Total number of declared attributes in the object tree (beside _save_attributes).
MaxAttrs == 2

Names == {"a", "b"}
SaveAttrsName == "_save_attributes"
AllNames == Names \cup {SaveAttrsName}

NoErr == "none"

----------------------------------------------------------------------------
\* Values an attribute may hold.

None == [k |-> "none"]
Unset == [k |-> "unset"]
JInt == [k |-> "int"]
JList == [k |-> "list"]
JTuple == [k |-> "tuple"]
JFunc == [k |-> "func"]
NdArray == [k |-> "ndarray"]
Tensor == [k |-> "tensor"]
Opaque == [k |-> "opaque"]
JDict(d) == [k |-> "dict", d |-> d]

Bang == "!"
Methods ==
    {<<"json">>, <<"json", Bang>>, <<"numpy">>, <<"numpy", Bang>>,
     <<"torch">>, <<"mushroom">>, <<"mushroom", Bang>>, <<"foo">>}

\* object_type.__new__(object_type): an instance with no attribute set.
Bare(t) == [k |-> "obj", type |-> t, attrs |-> [n \in AllNames |-> Unset]]

\* dict.update with one key: an existing key keeps its place, a new one is appended.
DictUpdate(d, key, val) ==
    IF \E i \in DOMAIN d : d[i].att = key
    THEN [d EXCEPT ![CHOOSE i \in DOMAIN d : d[i].att = key].method = val]
    ELSE Append(d, [att |-> key, method |-> val])

\* Serializable._add_save_attr(**attr_dict), with the keyword arguments as a sequence.
AddSaveAttrOp(o, pairs) ==
    LET base == IF o.attrs[SaveAttrsName] = Unset
                THEN <<[att |-> SaveAttrsName, method |-> <<"json">>]>>
                ELSE o.attrs[SaveAttrsName].d
        upd[i \in 0..Len(pairs)] ==
            IF i = 0 THEN base ELSE DictUpdate(upd[i - 1], pairs[i].att, pairs[i].method)
    IN  [o EXCEPT !.attrs[SaveAttrsName] = JDict(upd[Len(pairs)])]

\* A freshly constructed object of type t: its constructor has called _add_save_attr.
NewObject(t) == AddSaveAttrOp(Bare(t), <<>>)

RootType == "FQI"
NestedType == "Regressor"

----------------------------------------------------------------------------
\* The object tree.

RECURSIVE ObjPaths(_)
ObjPaths(o) ==
    {<<>>} \cup UNION {{<<n>> \o q : q \in ObjPaths(o.attrs[n])} :
                        n \in {m \in Names : o.attrs[m].k = "obj"}}

RECURSIVE ObjAt(_, _)
ObjAt(o, p) == IF p = <<>> THEN o ELSE ObjAt(o.attrs[Head(p)], Tail(p))

RECURSIVE ReplaceAt(_, _, _)
ReplaceAt(o, p, n) ==
    IF p = <<>> THEN n
    ELSE [o EXCEPT !.attrs[Head(p)] = ReplaceAt(o.attrs[Head(p)], Tail(p), n)]

Decl(o) == IF o.attrs[SaveAttrsName].k = "dict" THEN o.attrs[SaveAttrsName].d ELSE <<>>
Declared(o) == {Decl(o)[i].att : i \in DOMAIN Decl(o)}
MethodOf(o, att) == Decl(o)[CHOOSE i \in DOMAIN Decl(o) : Decl(o)[i].att = att].method

\* Declared attributes of the whole tree, _save_attributes aside.
RECURSIVE Count(_)
Count(o) ==
    LET sub[S \in SUBSET Names] ==
            IF S = {} THEN 0
            ELSE LET n == CHOOSE m \in S : TRUE
                 IN  (IF o.attrs[n].k = "obj" THEN Count(o.attrs[n]) ELSE 0)
                     + sub[S \ {n}]
    IN  Cardinality(Declared(o) \ {SaveAttrsName}) + sub[Names]

----------------------------------------------------------------------------
\* Method strings and entry names.

\* method[-1] is '!'  (one-character strings are interned, so the identity test
\* decides equality)
EndsWithBang(method) == method[Len(method)] = Bang

\* method[:-1] if method[-1] is '!' else method
StripBang(method) ==
    IF EndsWithBang(method) THEN SubSeq(method, 1, Len(method) - 1) ELSE method

\* The characters of a method string, joined.
MethodStr(method) ==
    LET j[i \in 0..Len(method)] == IF i = 0 THEN "" ELSE j[i - 1] \o method[i]
    IN  j[Len(method)]

\* method[-1] is not '!' or full_save
ShouldSave(method, fs) == ~EndsWithBang(method) \/ fs

\* getattr(self, att) if hasattr(self, att) else None
GetAttr(o, att) == IF o.attrs[att] = Unset THEN None ELSE o.attrs[att]

\* "{}.{}".format(att, method)
FileName(att, method) == att \o "." \o MethodStr(method)

\* Serializable._append_folder
AppendFolder(folder, name) == IF folder # "" THEN folder \o "/" \o name ELSE name

\* The _save_<method> and _load_<method> methods the class defines.
SaveMethods == {"pickle", "numpy", "torch", "json", "mushroom"}
LoadMethods == {"pickle", "numpy", "torch", "json", "mushroom"}

----------------------------------------------------------------------------
\* The archive: ZipFile.

NoFile == [exists |-> FALSE, entries |-> <<>>]
File(entries) == [exists |-> TRUE, entries |-> entries]

Namelist(zip) == {zip[i].name : i \in DOMAIN zip}

\* zip_file.open(name, 'r'): the last entry written under that name.
ZipRead(zip, name) ==
    LET I == {i \in DOMAIN zip : zip[i].name = name}
    IN  zip[CHOOSE i \in I : \A j \in I : j <= i].data

\* zip_file.open(path, 'w') closed after `data` was written to it.
ZipWrite(zip, path, data) == Append(zip, [name |-> path, data |-> data])

Empty == [fmt |-> "empty", v |-> None]

\* json.dumps: tuples are written as arrays, a function is not serializable.
JsonSerializable(v) == v.k \in {"none", "int", "list", "tuple", "dict"}
JsonDumps(v) ==
    CASE v.k = "none" -> [t |-> "null"]
      [] v.k = "int" -> [t |-> "number"]
      [] v.k \in {"list", "tuple"} -> [t |-> "array"]
      [] v.k = "dict" -> [t |-> "object", d |-> v.d]

\* json.load
JsonLoads(text) ==
    CASE text.t = "null" -> None
      [] text.t = "number" -> JInt
      [] text.t = "array" -> JList
      [] text.t = "object" -> JDict(text.d)

SaveOk(zip) == [zip |-> zip, err |-> NoErr]
SaveRaise(zip, e) == [zip |-> zip, err |-> e]

\* Serializable._save_pickle
SavePickle(zip, name, obj, folder) ==
    SaveOk(ZipWrite(zip, AppendFolder(folder, name), [fmt |-> "pickle", v |-> obj]))

\* Serializable._save_numpy
SaveNumpy(zip, name, obj, folder) ==
    SaveOk(ZipWrite(zip, AppendFolder(folder, name), [fmt |-> "npy", v |-> obj]))

\* Serializable._save_torch
SaveTorch(zip, name, obj, folder) ==
    SaveOk(ZipWrite(zip, AppendFolder(folder, name), [fmt |-> "pt", v |-> obj]))

\* Serializable._save_json: the entry is opened before json.dumps runs, so a
\* TypeError leaves an empty entry behind.
SaveJson(zip, name, obj, folder) ==
    LET path == AppendFolder(folder, name)
    IN  IF JsonSerializable(obj)
        THEN SaveOk(ZipWrite(zip, path, [fmt |-> "json", v |-> JsonDumps(obj)]))
        ELSE SaveRaise(ZipWrite(zip, path, Empty), "TypeError")

----------------------------------------------------------------------------
\* Saving.

\* `attribute is not None`
IsNotNone(attribute) == attribute # None

\* hasattr(self, '_save_{}'.format(method))
HasSaveMethod(method) == MethodStr(method) \in SaveMethods

RECURSIVE SaveZip(_, _, _, _)
RECURSIVE SaveAttrs(_, _, _, _, _, _)
RECURSIVE SaveMushroom(_, _, _, _, _)

\* save_method(zip_file, file_name, attribute, full_save=full_save, folder=folder)
SaveMethod(zip, method, file_name, attribute, fs, folder) ==
    CASE MethodStr(method) = "pickle" -> SavePickle(zip, file_name, attribute, folder)
      [] MethodStr(method) = "numpy" -> SaveNumpy(zip, file_name, attribute, folder)
      [] MethodStr(method) = "torch" -> SaveTorch(zip, file_name, attribute, folder)
      [] MethodStr(method) = "json" -> SaveJson(zip, file_name, attribute, folder)
      [] MethodStr(method) = "mushroom" -> SaveMushroom(zip, file_name, attribute, folder, fs)

\* The body of save_zip's loop for one (att, method) of _save_attributes.
SaveAttr(zip, o, fs, folder, att, method0) ==
    IF ShouldSave(method0, fs)
    THEN LET method == StripBang(method0)
             attribute == GetAttr(o, att)
         IN  IF IsNotNone(attribute)
             THEN IF HasSaveMethod(method)
                  THEN SaveMethod(zip, method, FileName(att, method), attribute, fs, folder)
                  ELSE SaveRaise(zip, "NotImplementedError")
             ELSE SaveOk(zip)
    ELSE SaveOk(zip)

\* save_zip's loop over self._save_attributes.items(), from the i-th item on.
SaveAttrs(zip, o, fs, folder, d, i) ==
    IF i > Len(d) THEN SaveOk(zip)
    ELSE LET r == SaveAttr(zip, o, fs, folder, d[i].att, d[i].method)
         IN  IF r.err # NoErr THEN r ELSE SaveAttrs(r.zip, o, fs, folder, d, i + 1)

\* Serializable.save_zip
SaveZip(zip, o, fs, folder) ==
    IF o.attrs[SaveAttrsName] = Unset THEN SaveRaise(zip, "AttributeError")
    ELSE LET config_data == [type |-> o.type, save_attributes |-> o.attrs[SaveAttrsName]]
             r == SavePickle(zip, "config", config_data, folder)
         IN  IF o.attrs[SaveAttrsName].k # "dict" THEN SaveRaise(r.zip, "AttributeError")
             ELSE SaveAttrs(r.zip, o, fs, folder, o.attrs[SaveAttrsName].d, 1)

\* _save_mushroom with the enclosing folder dropped from the new folder.
SaveMushroom_FlatFolder(zip, name, obj, folder, fs) ==
    IF obj.k # "obj" THEN SaveRaise(zip, "AttributeError")
    ELSE SaveZip(zip, obj, fs, name)

\* Serializable._save_mushroom; a value that is no Serializable has no save_zip.
SaveMushroom(zip, name, obj, folder, fs) ==
    LET new_folder == AppendFolder(folder, name)
    IN  IF obj.k # "obj" THEN SaveRaise(zip, "AttributeError")
        ELSE SaveZip(zip, obj, fs, new_folder)

\* Serializable.save: ZipFile(path, 'w') creates the file at the target path and
\* closes it on every exit, an exception included.
SaveFile(o, fs) ==
    LET r == SaveZip(<<>>, o, fs, "")
    IN  [file |-> File(r.zip), err |-> r.err]

----------------------------------------------------------------------------
\* Loading.  A load returns [ok, obj, err, at, log]: the object, or the exception
\* and the entry name it was raised for, and the events so far: every setattr on
\* an object under reconstruction and every _post_load call, the object named by
\* the folder it is loaded from.

LoadOk(obj, log) == [ok |-> TRUE, obj |-> obj, err |-> NoErr, at |-> "", log |-> log]
LoadRaise(e, at, log) == [ok |-> FALSE, obj |-> None, err |-> e, at |-> at, log |-> log]

SetEvent(folder, att, val) == [e |-> "set", obj |-> folder, att |-> att, none |-> (val = None)]
PostEvent(folder) == [e |-> "post", obj |-> folder, att |-> "", none |-> FALSE]

\* Serializable._load_pickle
LoadPickle(zip, name, log) ==
    IF name \notin Namelist(zip) THEN LoadRaise("KeyError", name, log)
    ELSE IF ZipRead(zip, name).fmt # "pickle" THEN LoadRaise("UnpicklingError", name, log)
    ELSE LoadOk(ZipRead(zip, name).v, log)

\* Serializable._load_numpy
LoadNumpy(zip, name, log) ==
    IF name \notin Namelist(zip) THEN LoadRaise("KeyError", name, log)
    ELSE IF ZipRead(zip, name).fmt # "npy" THEN LoadRaise("ValueError", name, log)
    ELSE LoadOk(ZipRead(zip, name).v, log)

\* Serializable._load_torch
LoadTorch(zip, name, log) ==
    IF name \notin Namelist(zip) THEN LoadRaise("KeyError", name, log)
    ELSE IF ZipRead(zip, name).fmt # "pt" THEN LoadRaise("UnpicklingError", name, log)
    ELSE LoadOk(ZipRead(zip, name).v, log)

\* Serializable._load_json
LoadJson(zip, name, log) ==
    IF name \notin Namelist(zip) THEN LoadRaise("KeyError", name, log)
    ELSE IF ZipRead(zip, name).fmt # "json" THEN LoadRaise("JSONDecodeError", name, log)
    ELSE LoadOk(JsonLoads(ZipRead(zip, name).v), log)

\* The nested-object case left out of the test.
MustLoad_IfPresent(file_name, method, names) == file_name \in names

\* file_name in zip_file.namelist() or method == 'mushroom'
MustLoad(file_name, method, names) == file_name \in names \/ MethodStr(method) = "mushroom"

\* getattr(cls, '_load_{}'.format(method)) finds a method
HasLoadMethod(method) == MethodStr(method) \in LoadMethods

\* The object returned without its hook being called.
PostLoad_Skipped(obj, folder, log) == LoadOk(obj, log)

\* loaded_object._post_load(); return loaded_object
PostLoad(obj, folder, log) == LoadOk(obj, Append(log, PostEvent(folder)))

\* setattr(loaded_object, att, att_val)
SetAttrOp(obj, folder, att, val, log) ==
    LoadOk([obj EXCEPT !.attrs[att] = val], Append(log, SetEvent(folder, att, val)))

RECURSIVE LoadZip(_, _, _)
RECURSIVE LoadAttrs(_, _, _, _, _, _)
RECURSIVE LoadMushroom(_, _, _)

\* load_method(zip_file, file_name)
LoadMethod(zip, method, file_name, log) ==
    CASE MethodStr(method) = "pickle" -> LoadPickle(zip, file_name, log)
      [] MethodStr(method) = "numpy" -> LoadNumpy(zip, file_name, log)
      [] MethodStr(method) = "torch" -> LoadTorch(zip, file_name, log)
      [] MethodStr(method) = "json" -> LoadJson(zip, file_name, log)
      [] MethodStr(method) = "mushroom" -> LoadMushroom(zip, file_name, log)

\* The body of load_zip's loop for one (att, method) of save_attributes.
LoadAttr(zip, folder, att, method0, obj, log) ==
    LET method == StripBang(method0)
        file_name == AppendFolder(folder, FileName(att, method))
    IN  IF MustLoad(file_name, method, Namelist(zip))
        THEN IF HasLoadMethod(method)
             THEN LET r == LoadMethod(zip, method, file_name, log)
                  IN  IF r.ok THEN SetAttrOp(obj, folder, att, r.obj, r.log) ELSE r
             ELSE LoadRaise("AttributeError", file_name, log)
        ELSE SetAttrOp(obj, folder, att, None, log)

\* load_zip's loop over save_attributes.items(), from the i-th item on.
LoadAttrs(zip, folder, d, i, obj, log) ==
    IF i > Len(d) THEN LoadOk(obj, log)
    ELSE LET r == LoadAttr(zip, folder, d[i].att, d[i].method, obj, log)
         IN  IF r.ok THEN LoadAttrs(zip, folder, d, i + 1, r.obj, r.log) ELSE r

\* Serializable.load_zip
LoadZip(zip, folder, log) ==
    LET config_path == AppendFolder(folder, "config")
        c == LoadPickle(zip, config_path, log)
    IN  IF ~c.ok THEN c
        ELSE IF c.obj.save_attributes.k # "dict"
        THEN LoadRaise("AttributeError", config_path, log)
        ELSE LET loaded_object == Bare(c.obj.type)
                 r == LoadAttrs(zip, folder, c.obj.save_attributes.d, 1, loaded_object, log)
             IN  IF r.ok THEN PostLoad(r.obj, folder, r.log) ELSE r

\* Serializable._load_mushroom
LoadMushroom(zip, name, log) == LoadZip(zip, name, log)

\* Serializable.load
LoadFile(file) ==
    IF ~file.exists THEN LoadRaise("ValueError", "", <<>>)
    ELSE LoadZip(file.entries, "", <<>>)

----------------------------------------------------------------------------
\* The values an attribute declared with `method` is assigned.
ValuesFor(method) ==
    CASE MethodStr(StripBang(method)) = "json" -> {JInt, JTuple, JFunc}
      [] MethodStr(StripBang(method)) = "numpy" -> {NdArray}
      [] MethodStr(StripBang(method)) = "torch" -> {Tensor}
      [] MethodStr(StripBang(method)) = "mushroom" -> {NewObject(NestedType)}
      [] OTHER -> {Opaque}

NoLoad == LoadRaise("", "", <<>>)

Init ==
    /\ x = NewObject(RootType)
    /\ pc = "build"
    /\ full_save = FALSE
    /\ file1 = NoFile
    /\ tampered = FALSE
    /\ save_err = NoErr
    /\ loaded = NoLoad
    /\ file2 = NoFile
    /\ resave_err = NoErr

\* self._add_save_attr(att=method) on the object at path p of the tree.
AddSaveAttr(p, att, method) ==
    /\ pc = "build"
    /\ Count(x) < MaxAttrs \/ att \in Declared(ObjAt(x, p))
    /\ ObjAt(x, p).attrs[att] \in {Unset, None}
    /\ x' = ReplaceAt(x, p, AddSaveAttrOp(ObjAt(x, p), <<[att |-> att, method |-> method]>>))
    /\ x' # x
    /\ UNCHANGED <<pc, full_save, file1, tampered, save_err, loaded, file2, resave_err>>

\* self.<att> = val on the object at path p of the tree.
SetAttr(p, att, val) ==
    /\ pc = "build"
    /\ att \in Declared(ObjAt(x, p))
    /\ val \in ValuesFor(MethodOf(ObjAt(x, p), att)) \cup {None}
    /\ x' = ReplaceAt(x, p, [ObjAt(x, p) EXCEPT !.attrs[att] = val])
    /\ x' # x
    /\ UNCHANGED <<pc, full_save, file1, tampered, save_err, loaded, file2, resave_err>>

\* x.save(path1, full_save=fs)
Save(fs) ==
    /\ pc = "build"
    /\ LET r == SaveFile(x, fs)
       IN  /\ file1' = r.file
           /\ save_err' = r.err
    /\ full_save' = fs
    /\ pc' = "saved"
    /\ UNCHANGED <<x, tampered, loaded, file2, resave_err>>

\* The config entry of one saved object is deleted from the archive at path1
\* before it is loaded (the archive load is given need not be one save wrote).
DeleteConfig(i) ==
    /\ pc = "saved"
    /\ ~tampered
    /\ i \in DOMAIN file1.entries
    /\ file1.entries[i].data.fmt = "pickle"
    /\ file1' = File(SelectSeq(file1.entries, LAMBDA e : e.name # file1.entries[i].name))
    /\ tampered' = TRUE
    /\ UNCHANGED <<x, pc, full_save, save_err, loaded, file2, resave_err>>

\* Serializable.load(path1)
Load ==
    /\ pc \in {"build", "saved"}
    /\ loaded' = LoadFile(file1)
    /\ pc' = "loaded"
    /\ UNCHANGED <<x, full_save, file1, tampered, save_err, file2, resave_err>>

\* loaded.save(path2, full_save=full_save)
Resave ==
    /\ pc = "loaded"
    /\ loaded.ok
    /\ LET r == SaveFile(loaded.obj, full_save)
       IN  /\ file2' = r.file
           /\ resave_err' = r.err
    /\ pc' = "resaved"
    /\ UNCHANGED <<x, full_save, file1, tampered, save_err, loaded>>

Next ==
    \/ \E p \in ObjPaths(x), att \in Names, method \in Methods : AddSaveAttr(p, att, method)
    \/ \E p \in ObjPaths(x), att \in Names :
        \E val \in {None, JInt, JTuple, JFunc, NdArray, Tensor, Opaque, NewObject(NestedType)} :
            SetAttr(p, att, val)
    \/ \E fs \in BOOLEAN : Save(fs)
    \/ \E i \in DOMAIN file1.entries : DeleteConfig(i)
    \/ Load
    \/ Resave

Spec == Init /\ [][Next]_vars

----------------------------------------------------------------------------
\* Vocabulary of the properties.

Codec(method) == MethodStr(StripBang(method))

\* The archive folder of the object at path p of a tree, each nesting step adding
\* the directory <attr><dirsuffix>.
RECURSIVE PathFolder(_, _)
PathFolder(p, dirsuffix) ==
    IF p = <<>> THEN ""
    ELSE LET parent == PathFolder(SubSeq(p, 1, Len(p) - 1), dirsuffix)
         IN  (IF parent = "" THEN "" ELSE parent \o "/") \o p[Len(p)] \o dirsuffix

InFolder(folder, name) == IF folder = "" THEN name ELSE folder \o "/" \o name

\* The entry names save is to write for object o under `folder`.
RECURSIVE ExpectedNames(_, _, _, _)
ExpectedNames(o, fs, folder, dirsuffix) ==
    {InFolder(folder, "config")} \cup
    UNION {LET att == Decl(o)[i].att
               method == Decl(o)[i].method
           IN  IF (EndsWithBang(method) /\ ~fs) \/ GetAttr(o, att) = None THEN {}
               ELSE IF Codec(method) = "mushroom"
               THEN ExpectedNames(o.attrs[att], fs, InFolder(folder, att \o dirsuffix), dirsuffix)
               ELSE {InFolder(folder, att \o "." \o Codec(method))}
           : i \in DOMAIN Decl(o)}

NoDuplicateNames(zip) == \A i, j \in DOMAIN zip : zip[i].name = zip[j].name => i = j

Layout(file, o, fs, err, dirsuffix) ==
    /\ file.entries # <<>> => file.entries[1].name = "config"
    /\ NoDuplicateNames(file.entries)
    /\ Namelist(file.entries) \subseteq ExpectedNames(o, fs, "", dirsuffix)
    /\ err = NoErr => Namelist(file.entries) = ExpectedNames(o, fs, "", dirsuffix)

\* file1 is what x.save(path1, full_save) left at path1.
Saved == file1.exists /\ ~tampered
LoadDone == pc \in {"loaded", "resaved"} /\ file1.exists

\* Observable equality of a loaded object with the original, per declared attribute.
RECURSIVE ObsEqual(_, _)
ObsEqual(o1, o2) ==
    /\ o1.type = o2.type
    /\ \A att \in Declared(o1) :
        LET v1 == GetAttr(o1, att)
            v2 == GetAttr(o2, att)
        IN  IF v1.k = "obj" THEN v2.k = "obj" /\ ObsEqual(v1, v2) ELSE v1 = v2

SupportedOnly(o) ==
    \A p \in ObjPaths(o) : \A att \in Declared(ObjAt(o, p)) :
        Codec(MethodOf(ObjAt(o, p), att)) \in {"json", "numpy", "torch", "mushroom"}

NoAbsence(o) ==
    \A p \in ObjPaths(o) : \A att \in Declared(ObjAt(o, p)) : GetAttr(ObjAt(o, p), att) # None

LogIdx(e, folder, att) ==
    {i \in DOMAIN loaded.log :
        loaded.log[i].e = e /\ loaded.log[i].obj = folder /\ loaded.log[i].att = att}

----------------------------------------------------------------------------
\* C1: load(save(x, full_save=True)) returns an object of x's type whose every
\* declared attribute equals x's, for x declared with supported codecs only.
C1_RoundTrip ==
    (LoadDone /\ Saved /\ full_save /\ save_err = NoErr /\ SupportedOnly(x))
        => loaded.ok /\ ObsEqual(x, loaded.obj)

\* C2: every full-save-only attribute, on the root or nested, is None after
\* load(save(x, full_save=False)), which succeeds, and has its original value
\* after load(save(x, full_save=True)).
C2_PartialSave ==
    (LoadDone /\ Saved /\ save_err = NoErr /\ SupportedOnly(x))
        => \A p \in ObjPaths(x) : \A att \in Declared(ObjAt(x, p)) \cap Names :
            EndsWithBang(MethodOf(ObjAt(x, p), att))
                => /\ loaded.ok
                   /\ p \in ObjPaths(loaded.obj)
                   /\ ~full_save => ObjAt(loaded.obj, p).attrs[att] = None
                   /\ full_save =>
                        LET v1 == GetAttr(ObjAt(x, p), att)
                            v2 == ObjAt(loaded.obj, p).attrs[att]
                        IN  IF v1.k = "obj" THEN v2.k = "obj" /\ ObsEqual(v1, v2) ELSE v1 = v2

\* C3: a declared attribute with a non-nested codec whose value is None or unset
\* at save time gets no entry <attr>.<codec> in the archive save writes, and load
\* of that archive returns an object in which it is None.
C3_LoadsNone ==
    (LoadDone /\ Saved /\ save_err = NoErr)
        => \A p \in ObjPaths(x) : \A att \in Declared(ObjAt(x, p)) \cap Names :
            LET o == ObjAt(x, p)
                name == InFolder(PathFolder(p, ".mushroom"),
                                 att \o "." \o Codec(MethodOf(o, att)))
            IN  (Codec(MethodOf(o, att)) # "mushroom" /\ GetAttr(o, att) = None)
                    => /\ name \notin Namelist(file1.entries)
                       /\ loaded.ok
                       /\ p \in ObjPaths(loaded.obj)
                       /\ ObjAt(loaded.obj, p).attrs[att] = None

\* The part of C3 that holds of every archive: such an attribute gets no entry,
\* load raises nothing for it, every assignment load makes to it assigns None,
\* and it is None in the object load returns, when load returns one.
C3_OptionalOmitted ==
    file1.exists =>
        \A p \in ObjPaths(x) : \A att \in Declared(ObjAt(x, p)) \cap Names :
            LET o == ObjAt(x, p)
                folder == PathFolder(p, ".mushroom")
                name == InFolder(folder, att \o "." \o Codec(MethodOf(o, att)))
            IN  (Codec(MethodOf(o, att)) # "mushroom" /\ GetAttr(o, att) = None)
                    => /\ name \notin Namelist(file1.entries)
                       /\ LoadDone =>
                            /\ loaded.at # name
                            /\ \A i \in LogIdx("set", folder, att) : loaded.log[i].none
                            /\ loaded.ok => /\ p \in ObjPaths(loaded.obj)
                                            /\ ObjAt(loaded.obj, p).attrs[att] = None

\* That case reached: a successful load of an archive saved from a tree with a
\* nested object holding an absent non-nested attribute.
C3_OptionalOmittedReached ==
    /\ pc = "loaded" /\ Saved /\ loaded.ok
    /\ \E p \in ObjPaths(x) : \E att \in Declared(ObjAt(x, p)) \cap Names :
        /\ Len(p) >= 1
        /\ Codec(MethodOf(ObjAt(x, p), att)) = "json"
        /\ ~EndsWithBang(MethodOf(ObjAt(x, p), att))
        /\ ObjAt(x, p).attrs[att] = None
        /\ LogIdx("set", PathFolder(p, ".mushroom"), att) # {}

\* The folders an archive of the model can hold an object under.
Folders ==
    {PathFolder(p, ".mushroom") : p \in UNION {[1..n -> Names] : n \in 0..(MaxAttrs + 1)}}

\* The (folder, attribute) pairs an archive declares as nested objects without
\* holding the nested object's config entry.
MissingNested(zip) ==
    {fa \in Folders \X Names :
        /\ AppendFolder(fa[1], "config") \in Namelist(zip)
        /\ LET c == ZipRead(zip, AppendFolder(fa[1], "config")).v.save_attributes
           IN  /\ c.k = "dict"
               /\ \E i \in DOMAIN c.d : c.d[i].att = fa[2] /\ Codec(c.d[i].method) = "mushroom"
        /\ AppendFolder(AppendFolder(fa[1], FileName(fa[2], <<"mushroom">>)), "config")
                \notin Namelist(zip)}

\* C4: when an archive declares a nested-object attribute and lacks the nested
\* object's config entry, load fails: it returns no object and never assigns
\* that attribute, None included.
C4_NestedMandatory ==
    LoadDone =>
        \A fa \in MissingNested(file1.entries) :
            /\ ~loaded.ok
            /\ loaded.obj = None
            /\ LogIdx("set", fa[1], fa[2]) = {}

\* The witness of C4: the config entry of a saved nested object was deleted and
\* load raised KeyError for it.
C4_Witness ==
    /\ pc = "loaded" /\ tampered
    /\ \E fa \in MissingNested(file1.entries) :
        /\ x.attrs[fa[2]].k = "obj"
        /\ fa[1] = ""
        /\ loaded.err = "KeyError"
        /\ loaded.at = fa[2] \o ".mushroom/config"

\* C5: a declared attribute whose codec has no _save_/_load_ method makes save
\* raise, and makes load of an archive whose config declares it raise.
C5_UnknownCodecRejected ==
    /\ (Saved /\ \E att \in Declared(x) : ~HasSaveMethod(StripBang(MethodOf(x, att))))
            => save_err # NoErr
    /\ (LoadDone /\ "config" \in Namelist(file1.entries))
            => LET c == ZipRead(file1.entries, "config").v.save_attributes
               IN  (c.k = "dict" /\ \E i \in DOMAIN c.d : ~HasLoadMethod(StripBang(c.d[i].method)))
                        => ~loaded.ok

\* C6: a save that fails leaves at the target path what was there before (no
\* file) or a complete archive.
C6_SaveAtomic ==
    (pc # "build" /\ ~tampered /\ save_err # NoErr)
        => \/ ~file1.exists
           \/ /\ Namelist(file1.entries) = ExpectedNames(x, full_save, "", ".mushroom")
              /\ \A i \in DOMAIN file1.entries : file1.entries[i].data # Empty

\* C7 as stated: the object nested under <attr> has its config at <attr>/config
\* and its attributes at <attr>/<sub-attr>.<codec>.
C7_SpecLayout ==
    /\ Saved => Layout(file1, x, full_save, save_err, "")
    /\ pc = "resaved" => Layout(file2, loaded.obj, full_save, resave_err, "")

\* C7, amended: in every archive save produces the root config is the first
\* entry, `config`; each written attribute is <attr>.<codec>; the object nested
\* under <attr> has its config at <attr>.mushroom/config and its attributes at
\* <attr>.mushroom/<sub-attr>.<codec>, one directory <attr>.mushroom per nesting
\* step; no entry name is written twice.
C7_Layout ==
    /\ Saved => Layout(file1, x, full_save, save_err, ".mushroom")
    /\ pc = "resaved" => Layout(file2, loaded.obj, full_save, resave_err, ".mushroom")

\* The witness of C7: a completed save of a tree two nesting steps deep.
C7_Witness ==
    /\ pc = "saved" /\ Saved /\ save_err = NoErr
    /\ \E p \in ObjPaths(x) :
        /\ Len(p) = 2
        /\ (p[1] \o ".mushroom/" \o p[2] \o ".mushroom/config") \in Namelist(file1.entries)
        /\ (p[1] \o ".mushroom/" \o p[2] \o ".mushroom/_save_attributes.json")
                \in Namelist(file1.entries)

\* C8: for x without absent attributes, save(load(save(x))) with full_save=False
\* succeeds and writes the entries save(x) wrote.
C8_IdempotentResave ==
    (LoadDone /\ Saved /\ ~full_save /\ save_err = NoErr /\ NoAbsence(x))
        => /\ loaded.ok
           /\ pc = "resaved" => (resave_err = NoErr /\ file2 = file1)

\* C9: save writes the sub-archive of every declared nested-object attribute it
\* selects, so no load of an archive written with full_save=True fails for a
\* missing nested config.
C9_NestedAlwaysWritten ==
    /\ (Saved /\ save_err = NoErr)
            => \A p \in ObjPaths(x) : \A att \in Declared(ObjAt(x, p)) \cap Names :
                (/\ InFolder(PathFolder(p, ".mushroom"), "config") \in Namelist(file1.entries)
                 /\ Codec(MethodOf(ObjAt(x, p), att)) = "mushroom"
                 /\ ShouldSave(MethodOf(ObjAt(x, p), att), full_save))
                    => InFolder(PathFolder(Append(p, att), ".mushroom"), "config")
                            \in Namelist(file1.entries)
    /\ (LoadDone /\ Saved /\ full_save /\ save_err = NoErr) => loaded.err # "KeyError"

\* C10: in a successful load _post_load runs exactly once for the root and for
\* each nested object, after every declared attribute of that object was
\* assigned (hence after the hooks of its nested objects) and as the last step
\* before load returns; in a failed load the root's hook never runs.
C10_PostLoadOrder ==
    pc \in {"loaded", "resaved"} =>
        IF loaded.ok
        THEN /\ loaded.log[Len(loaded.log)] = PostEvent("")
             /\ Cardinality({i \in DOMAIN loaded.log : loaded.log[i].e = "post"})
                    = Cardinality(ObjPaths(loaded.obj))
             /\ \A p \in ObjPaths(loaded.obj) :
                    LET folder == PathFolder(p, ".mushroom")
                        decl == ZipRead(file1.entries, InFolder(folder, "config")).v.save_attributes.d
                        post == LogIdx("post", folder, "")
                    IN  /\ Cardinality(post) = 1
                        /\ \A j \in DOMAIN decl :
                            LET sets == LogIdx("set", folder, decl[j].att)
                            IN  /\ Cardinality(sets) = 1
                                /\ \A i \in sets : \A q \in post : i < q
                                /\ ObjAt(loaded.obj, p).attrs[decl[j].att].k = "obj"
                                    => \A i \in sets :
                                        \A q \in LogIdx("post",
                                                        InFolder(folder, decl[j].att \o ".mushroom"), "") :
                                            q < i
        ELSE LogIdx("post", "", "") = {}

\* The witness of C10: a successful load of a tree with a nested object that has
\* a restored attribute of its own.
C10_Witness ==
    /\ pc = "loaded" /\ loaded.ok
    /\ \E n \in Names :
        /\ loaded.obj.attrs[n].k = "obj"
        /\ \E m \in Names : loaded.obj.attrs[n].attrs[m] \notin {Unset, None}
        /\ Cardinality({i \in DOMAIN loaded.log : loaded.log[i].e = "post"}) = 2

====
